---- MODULE Spec2Model ----
(***************************************************************************)
(* Model of Modem::Power (src/drivers/modem/pinephone/power.h): the        *)
(* low-level power sequencing of the PinePhone modem.                      *)
(*                                                                         *)
(* The controller's fields are the variables requested, state,             *)
(* startup_seconds, shutdown_seconds and the pin_* lines.  Every public    *)
(* method is one action that runs the whole method.  The variable call     *)
(* records what the last operation did (its pin writes, delays, status     *)
(* reads and state assignments, in program order) so that properties of a  *)
(* single call can be stated as state predicates.                          *)
(***************************************************************************)
EXTENDS Integers, Sequences, FiniteSets, TLC

VARIABLES
    requested,         \* Requested _requested
    state,             \* State _state
    startup_seconds,   \* unsigned _startup_seconds
    shutdown_seconds,  \* unsigned _shutdown_seconds
    pin_status,        \* level of the "status" input line (TRUE = modem off)
    pin_battery,       \* levels of the six output lines
    pin_dtr,
    pin_enable,
    pin_host_ready,
    pin_pwrkey,
    pin_reset,
    twin_requested,    \* _requested of a second Power instance (other history)
    config,            \* the config node last passed to apply_config
    call               \* record of the last operation

vars == <<requested, state, startup_seconds, shutdown_seconds, pin_status,
          pin_battery, pin_dtr, pin_enable, pin_host_ready, pin_pwrkey,
          pin_reset, twin_requested, config, call>>

(***************************************************************************)
(* Bounds and program constants                                            *)
(***************************************************************************)

\* width of the modelled 'unsigned' counters (the code's is 32 bit)
CounterBits == 2

CounterMod == 2 ^ CounterBits

\* argument of _delayer.msleep() in both power-key pulses
PulseDelayMs == 1000

(***************************************************************************)
(* Types                                                                   *)
(***************************************************************************)

Requested == {"DONT_CARE", "OFF", "ON"}

State == {"UNKNOWN", "OFF", "STARTING_UP", "ON", "SHUTTING_DOWN"}

\* position of a State enumerator in the enum, used to log assignments
StateNum(s) ==
    CASE s = "UNKNOWN"       -> 0
      [] s = "OFF"           -> 1
      [] s = "STARTING_UP"   -> 2
      [] s = "ON"            -> 3
      [] s = "SHUTTING_DOWN" -> 4

\* an attribute of the config node is absent or carries a boolean
AttrValues == {"absent", "true", "false"}

Configs == [power : AttrValues, at_protocol : AttrValues]

NoConfig == [power |-> "none", at_protocol |-> "none"]

\* Xml_node::has_attribute
has_attribute(cfg, name) == cfg[name] # "absent"

\* Xml_node::attribute_value(name, default)
attribute_value(cfg, name, default) ==
    IF cfg[name] = "true" THEN TRUE
    ELSE IF cfg[name] = "false" THEN FALSE
    ELSE default

\* a line level as the integer the pin session reports
B2N(b) == IF b THEN 1 ELSE 0

(***************************************************************************)
(* The part of the object a drive call works on, with the log of what the  *)
(* call did.  Log entries are <<kind, value>>: a pin write, "msleep" with  *)
(* its milliseconds, "status" with the level read, "state" with the        *)
(* enumerator assigned to _state.                                          *)
(***************************************************************************)

Machine ==
    [state            |-> state,
     startup_seconds  |-> startup_seconds,
     shutdown_seconds |-> shutdown_seconds,
     pin_status       |-> pin_status,
     pin_pwrkey       |-> pin_pwrkey,
     pin_reset        |-> pin_reset,
     pin_enable       |-> pin_enable,
     trace            |-> <<>>,
     steps            |-> 0]

\* Pin_control::Connection::state(bool)
pin_write(m, pin, level) ==
    [m EXCEPT ![pin] = level, !.trace = Append(@, <<pin, B2N(level)>>)]

\* Pin_state::Connection::state(): the level is m.pin_status
status_read(m) ==
    [m EXCEPT !.trace = Append(@, <<"status", B2N(m.pin_status)>>)]

\* Delayer::msleep: blocks; the modem may move its status line meanwhile
msleep(m, ms, after) ==
    [m EXCEPT !.trace = Append(@, <<"msleep", ms>>), !.pin_status = after]

\* assignment to _state
set_state(m, s) ==
    [m EXCEPT !.state = s, !.trace = Append(@, <<"state", StateNum(s)>>)]

\* update_state_from_pin_status that takes a high status line for 'on'
update_state_not_inverted(m) ==
    LET r == status_read(m)
    IN  set_state(r, IF r.pin_status THEN "ON" ELSE "OFF")

update_state_from_pin_status(m) ==
    LET r == status_read(m)
    IN  set_state(r, IF r.pin_status THEN "OFF" ELSE "ON")

\* a power key pulse of half the length
pwrkey_pulse_short(m, after) ==
    LET a == pin_write(m, "pin_pwrkey", TRUE)
        b == msleep(a, 500, after)
    IN  pin_write(b, "pin_pwrkey", FALSE)

\* the power key pulse of both paths
pwrkey_pulse(m, after) ==
    LET a == pin_write(m, "pin_pwrkey", TRUE)
        b == msleep(a, PulseDelayMs, after)
    IN  pin_write(b, "pin_pwrkey", FALSE)

shutdown_triggered(m) ==
    set_state([m EXCEPT !.shutdown_seconds = 0], "SHUTTING_DOWN")

\* drive_power_up that keeps the old startup counter when it issues the pulse
drive_power_up_no_reset(m, after) ==
    LET m1 == IF m.state = "UNKNOWN" THEN update_state_from_pin_status(m) ELSE m
    IN  CASE m1.state = "OFF" ->
               set_state(pwrkey_pulse(m1, after), "STARTING_UP")
          [] m1.state = "STARTING_UP" ->
               LET m2 == [m1 EXCEPT !.startup_seconds = (@ + 1) % CounterMod]
                   m3 == status_read(m2)
               IN  IF B2N(m3.pin_status) = 0 THEN set_state(m3, "ON") ELSE m3
          [] OTHER -> m1

\* drive_power_up that gives up waiting once the counter has reached two
drive_power_up_timeout(m, after) ==
    LET m1 == IF m.state = "UNKNOWN" THEN update_state_from_pin_status(m) ELSE m
    IN  CASE m1.state = "OFF" ->
               set_state([pwrkey_pulse(m1, after) EXCEPT !.startup_seconds = 0],
                         "STARTING_UP")
          [] m1.state = "STARTING_UP" ->
               LET m2 == [m1 EXCEPT !.startup_seconds = (@ + 1) % CounterMod]
                   m3 == status_read(m2)
               IN  IF B2N(m3.pin_status) = 0 \/ m2.startup_seconds >= 2
                   THEN set_state(m3, "ON") ELSE m3
          [] OTHER -> m1

\* drive_power_up that pulses again while the modem has not come up
drive_power_up_retry(m, after) ==
    LET m1 == IF m.state = "UNKNOWN" THEN update_state_from_pin_status(m) ELSE m
    IN  CASE m1.state = "OFF" ->
               set_state([pwrkey_pulse(m1, after) EXCEPT !.startup_seconds = 0],
                         "STARTING_UP")
          [] m1.state = "STARTING_UP" ->
               LET m2 == [m1 EXCEPT !.startup_seconds = (@ + 1) % CounterMod]
                   m3 == status_read(m2)
               IN  IF B2N(m3.pin_status) = 0 THEN set_state(m3, "ON")
                   ELSE pwrkey_pulse(m3, after)
          [] OTHER -> m1

\* drive_power_up that powers up again out of a shutdown in progress
drive_power_up_from_shutting_down(m, after) ==
    LET m1 == IF m.state = "UNKNOWN" THEN update_state_from_pin_status(m) ELSE m
    IN  CASE m1.state \in {"OFF", "SHUTTING_DOWN"} ->
               set_state([pwrkey_pulse(m1, after) EXCEPT !.startup_seconds = 0],
                         "STARTING_UP")
          [] m1.state = "STARTING_UP" ->
               LET m2 == [m1 EXCEPT !.startup_seconds = (@ + 1) % CounterMod]
                   m3 == status_read(m2)
               IN  IF B2N(m3.pin_status) = 0 THEN set_state(m3, "ON") ELSE m3
          [] OTHER -> m1

\* drive_power_up that takes the modem for on as soon as the pulse is done
drive_power_up_skips_starting_up(m, after) ==
    LET m1 == IF m.state = "UNKNOWN" THEN update_state_from_pin_status(m) ELSE m
    IN  CASE m1.state = "OFF" ->
               set_state([pwrkey_pulse(m1, after) EXCEPT !.startup_seconds = 0],
                         "ON")
          [] m1.state = "STARTING_UP" ->
               LET m2 == [m1 EXCEPT !.startup_seconds = (@ + 1) % CounterMod]
                   m3 == status_read(m2)
               IN  IF B2N(m3.pin_status) = 0 THEN set_state(m3, "ON") ELSE m3
          [] OTHER -> m1

\* drive_power_up that does not sample the status line in UNKNOWN
drive_power_up_no_resolve(m, after) ==
    CASE m.state = "OFF" ->
           set_state([pwrkey_pulse(m, after) EXCEPT !.startup_seconds = 0],
                     "STARTING_UP")
      [] m.state = "STARTING_UP" ->
           LET m2 == [m EXCEPT !.startup_seconds = (@ + 1) % CounterMod]
               m3 == status_read(m2)
           IN  IF B2N(m3.pin_status) = 0 THEN set_state(m3, "ON") ELSE m3
      [] OTHER -> m

\* drive_power_up that releases reset and enable before it pulses the power key
drive_power_up_releases_reset(m, after) ==
    LET m1 == IF m.state = "UNKNOWN" THEN update_state_from_pin_status(m) ELSE m
    IN  CASE m1.state = "OFF" ->
               LET a == pin_write(m1, "pin_reset", FALSE)
                   b == pin_write(a, "pin_enable", FALSE)
               IN  set_state([pwrkey_pulse(b, after)
                                  EXCEPT !.startup_seconds = 0], "STARTING_UP")
          [] m1.state = "STARTING_UP" ->
               LET m2 == [m1 EXCEPT !.startup_seconds = (@ + 1) % CounterMod]
                   m3 == status_read(m2)
               IN  IF B2N(m3.pin_status) = 0 THEN set_state(m3, "ON") ELSE m3
          [] OTHER -> m1

drive_power_up(m, after) ==
    LET m1 == IF m.state = "UNKNOWN" THEN update_state_from_pin_status(m) ELSE m
    IN  CASE m1.state = "OFF" ->
               set_state([pwrkey_pulse(m1, after) EXCEPT !.startup_seconds = 0],
                         "STARTING_UP")
          [] m1.state = "STARTING_UP" ->
               LET m2 == [m1 EXCEPT !.startup_seconds = (@ + 1) % CounterMod]
                   m3 == status_read(m2)
               IN  IF B2N(m3.pin_status) = 0 THEN set_state(m3, "ON") ELSE m3
          [] OTHER -> m1

\* drive_power_down that pulses the power key before it asserts reset and enable
drive_power_down_pulse_first(m, after) ==
    LET m1 == IF m.state = "UNKNOWN" THEN update_state_from_pin_status(m) ELSE m
    IN  CASE m1.state \in {"STARTING_UP", "ON"} ->
               LET a == pwrkey_pulse(m1, after)
                   b == pin_write(a, "pin_reset", TRUE)
               IN  shutdown_triggered(pin_write(b, "pin_enable", TRUE))
          [] m1.state = "SHUTTING_DOWN" ->
               LET m2 == [m1 EXCEPT !.shutdown_seconds = (@ + 1) % CounterMod]
                   m3 == status_read(m2)
               IN  IF B2N(m3.pin_status) = 1 THEN set_state(m3, "OFF") ELSE m3
          [] OTHER -> m1

\* drive_power_down that pulses the power key again while the modem is still on
drive_power_down_repulse(m, after) ==
    LET m1 == IF m.state = "UNKNOWN" THEN update_state_from_pin_status(m) ELSE m
    IN  CASE m1.state \in {"STARTING_UP", "ON"} ->
               LET a == pin_write(m1, "pin_reset", TRUE)
                   b == pin_write(a, "pin_enable", TRUE)
               IN  shutdown_triggered(pwrkey_pulse(b, after))
          [] m1.state = "SHUTTING_DOWN" ->
               LET m2 == [m1 EXCEPT !.shutdown_seconds = (@ + 1) % CounterMod]
                   m3 == status_read(m2)
               IN  IF B2N(m3.pin_status) = 1 THEN set_state(m3, "OFF")
                   ELSE pwrkey_pulse(m3, after)
          [] OTHER -> m1

drive_power_down(m, after) ==
    LET m1 == IF m.state = "UNKNOWN" THEN update_state_from_pin_status(m) ELSE m
    IN  CASE m1.state \in {"STARTING_UP", "ON"} ->
               LET a == pin_write(m1, "pin_reset", TRUE)
                   b == pin_write(a, "pin_enable", TRUE)
               IN  shutdown_triggered(pwrkey_pulse(b, after))
          [] m1.state = "SHUTTING_DOWN" ->
               LET m2 == [m1 EXCEPT !.shutdown_seconds = (@ + 1) % CounterMod]
                   m3 == status_read(m2)
               IN  IF B2N(m3.pin_status) = 1 THEN set_state(m3, "OFF") ELSE m3
          [] OTHER -> m1

\* a loop body that resolves Unknown even without a request
drive_step_resolves_unknown(m, req, after) ==
    LET n == CASE req = "DONT_CARE" ->
                    IF m.state = "UNKNOWN" THEN update_state_from_pin_status(m)
                    ELSE m
               [] req = "ON"        -> drive_power_up(m, after)
               [] req = "OFF"       -> drive_power_down(m, after)
    IN  [n EXCEPT !.steps = @ + 1]

\* one pass of the for(;;) body: the switch on _requested
drive_step(m, req, after) ==
    LET n == CASE req = "DONT_CARE" -> m
               [] req = "ON"        -> drive_power_up(m, after)
               [] req = "OFF"       -> drive_power_down(m, after)
    IN  [n EXCEPT !.steps = @ + 1]

RECURSIVE drive_state_transitions(_, _, _)
drive_state_transitions(m, req, after) ==
    LET orig_state == m.state
        n == drive_step(m, req, after)
    IN  IF orig_state = n.state THEN n
        ELSE drive_state_transitions(n, req, after)

\* apply_config that requests Off when the AT protocol is enabled
apply_config_at_not_negated(req, cfg) ==
    IF ~has_attribute(cfg, "power") THEN "DONT_CARE"
    ELSE LET r1 == IF attribute_value(cfg, "power", FALSE) THEN "ON" ELSE req
             power_down_without_at_protocol ==
                 ~attribute_value(cfg, "power", FALSE)
                 /\ attribute_value(cfg, "at_protocol", TRUE)
         IN  IF power_down_without_at_protocol THEN "OFF" ELSE r1

\* the new _requested, given the old one and the config node
apply_config(req, cfg) ==
    IF ~has_attribute(cfg, "power") THEN "DONT_CARE"
    ELSE LET r1 == IF attribute_value(cfg, "power", FALSE) THEN "ON" ELSE req
             power_down_without_at_protocol ==
                 ~attribute_value(cfg, "power", FALSE)
                 /\ ~attribute_value(cfg, "at_protocol", TRUE)
         IN  IF power_down_without_at_protocol THEN "OFF" ELSE r1

\* needs_update_each_second that forgets the shutdown in progress
needs_update_startup_only == state = "STARTING_UP"

needs_update_each_second ==
    (state = "STARTING_UP") \/ (state = "SHUTTING_DOWN")

\* the string generate_report's power_value lambda returns for a state
power_value(s) ==
    CASE s = "UNKNOWN"       -> "unknown"
      [] s = "OFF"           -> "off"
      [] s = "STARTING_UP"   -> "starting up"
      [] s = "ON"            -> "on"
      [] s = "SHUTTING_DOWN" -> "shutting down"
      [] OTHER               -> ""

\* what an Xml_generator holds before anything is written: per attribute the
\* sequence of values written to it
NoReport == [power |-> <<>>, startup_seconds |-> <<>>, shutdown_seconds |-> <<>>]

\* Xml_generator::attribute(name, value)
xml_attribute(xml, name, value) == [xml EXCEPT ![name] = Append(@, value)]

\* generate_report that reports the startup counter in both transient states
generate_report_startup_always ==
    LET x1 == xml_attribute(NoReport, "power", power_value(state))
        x2 == IF needs_update_each_second
              THEN xml_attribute(x1, "startup_seconds", startup_seconds) ELSE x1
    IN  IF state = "SHUTTING_DOWN"
        THEN xml_attribute(x2, "shutdown_seconds", shutdown_seconds) ELSE x2

generate_report ==
    LET x1 == xml_attribute(NoReport, "power", power_value(state))
        x2 == IF state = "STARTING_UP"
              THEN xml_attribute(x1, "startup_seconds", startup_seconds) ELSE x1
    IN  IF state = "SHUTTING_DOWN"
        THEN xml_attribute(x2, "shutdown_seconds", shutdown_seconds) ELSE x2

(***************************************************************************)
(* Operations                                                              *)
(***************************************************************************)

CallRecord(op, m, ret) ==
    [op            |-> op,
     pre_state     |-> state,
     pre_requested |-> requested,
     after_drive   |-> call.op = "drive",
     steps         |-> m.steps,
     trace         |-> m.trace,
     ret           |-> ret,
     report        |-> NoReport]

\* the state after the constructor Power(env, delayer) has run; the level of
\* the power key, which the constructor does not write, is the pin driver's
Init ==
    /\ requested = "DONT_CARE"
    /\ state = "UNKNOWN"
    /\ startup_seconds = 0
    /\ shutdown_seconds = 0
    /\ pin_status \in BOOLEAN
    /\ pin_battery = TRUE
    /\ pin_reset = FALSE
    /\ pin_host_ready = FALSE
    /\ pin_dtr = FALSE
    /\ pin_enable = FALSE
    /\ pin_pwrkey \in BOOLEAN
    /\ twin_requested = "DONT_CARE"
    /\ config = NoConfig
    /\ call = [op |-> "Power", pre_state |-> "UNKNOWN",
               pre_requested |-> "DONT_CARE", after_drive |-> FALSE,
               steps |-> 0, trace |-> <<>>, ret |-> FALSE,
               report |-> NoReport]

\* apply_config that drives the state machine itself after setting the intent
ApplyConfigAndDrive ==
    \E cfg \in Configs, after \in BOOLEAN :
        LET m == drive_state_transitions(Machine, apply_config(requested, cfg),
                                         after)
        IN  /\ requested' = apply_config(requested, cfg)
            /\ twin_requested' = apply_config(twin_requested, cfg)
            /\ config' = cfg
            /\ state' = m.state
            /\ startup_seconds' = m.startup_seconds
            /\ shutdown_seconds' = m.shutdown_seconds
            /\ pin_status' = m.pin_status
            /\ pin_pwrkey' = m.pin_pwrkey
            /\ pin_reset' = m.pin_reset
            /\ pin_enable' = m.pin_enable
            /\ call' = CallRecord("apply_config", m, FALSE)
            /\ UNCHANGED <<pin_battery, pin_dtr, pin_host_ready>>

\* apply_config(config), the same node given to both instances
ApplyConfig ==
    \E cfg \in Configs :
        /\ requested' = apply_config(requested, cfg)
        /\ twin_requested' = apply_config(twin_requested, cfg)
        /\ config' = cfg
        /\ call' = CallRecord("apply_config", Machine, FALSE)
        /\ UNCHANGED <<state, startup_seconds, shutdown_seconds, pin_status,
                       pin_battery, pin_dtr, pin_enable, pin_host_ready,
                       pin_pwrkey, pin_reset>>

\* apply_config(config) on the second instance alone
TwinApplyConfig ==
    \E cfg \in Configs :
        /\ twin_requested' = apply_config(twin_requested, cfg)
        /\ call' = CallRecord("twin_apply_config", Machine, FALSE)
        /\ UNCHANGED <<requested, state, startup_seconds, shutdown_seconds,
                       pin_status, pin_battery, pin_dtr, pin_enable,
                       pin_host_ready, pin_pwrkey, pin_reset, config>>

\* drive_state_transitions()
Drive ==
    \E after \in BOOLEAN :
        LET m == drive_state_transitions(Machine, requested, after)
        IN  /\ state' = m.state
            /\ startup_seconds' = m.startup_seconds
            /\ shutdown_seconds' = m.shutdown_seconds
            /\ pin_status' = m.pin_status
            /\ pin_pwrkey' = m.pin_pwrkey
            /\ pin_reset' = m.pin_reset
            /\ pin_enable' = m.pin_enable
            /\ call' = CallRecord("drive", m, FALSE)
            /\ UNCHANGED <<requested, twin_requested, config, pin_battery,
                           pin_dtr, pin_host_ready>>

\* shutdown_triggered(), called from outside the class
ShutdownTriggered ==
    LET m == shutdown_triggered(Machine)
    IN  /\ state' = m.state
        /\ shutdown_seconds' = m.shutdown_seconds
        /\ call' = CallRecord("shutdown_triggered", m, FALSE)
        /\ UNCHANGED <<requested, twin_requested, config, startup_seconds,
                       pin_status, pin_battery, pin_dtr, pin_enable,
                       pin_host_ready, pin_pwrkey, pin_reset>>

\* needs_update_each_second()
NeedsUpdateEachSecond ==
    /\ call' = CallRecord("needs_update_each_second", Machine,
                          needs_update_each_second)
    /\ UNCHANGED <<requested, state, startup_seconds, shutdown_seconds,
                   pin_status, pin_battery, pin_dtr, pin_enable,
                   pin_host_ready, pin_pwrkey, pin_reset, twin_requested,
                   config>>

\* generate_report(xml)
GenerateReport ==
    /\ call' = [CallRecord("generate_report", Machine, FALSE)
                   EXCEPT !.report = generate_report]
    /\ UNCHANGED <<requested, state, startup_seconds, shutdown_seconds,
                   pin_status, pin_battery, pin_dtr, pin_enable,
                   pin_host_ready, pin_pwrkey, pin_reset, twin_requested,
                   config>>

\* the modem moves its status line between two calls
StatusChange ==
    /\ pin_status' = ~pin_status
    /\ call' = CallRecord("status_change", Machine, FALSE)
    /\ UNCHANGED <<requested, state, startup_seconds, shutdown_seconds,
                   pin_battery, pin_dtr, pin_enable, pin_host_ready,
                   pin_pwrkey, pin_reset, twin_requested, config>>

\* the modem completes the transition in progress: its status line takes
\* the level that the last pulse (or triggered shutdown) asked for
ModemSettle ==
    /\ state \in {"STARTING_UP", "SHUTTING_DOWN"}
    /\ pin_status # (state = "SHUTTING_DOWN")
    /\ pin_status' = (state = "SHUTTING_DOWN")
    /\ call' = CallRecord("status_change", Machine, FALSE)
    /\ UNCHANGED <<requested, state, startup_seconds, shutdown_seconds,
                   pin_battery, pin_dtr, pin_enable, pin_host_ready,
                   pin_pwrkey, pin_reset, twin_requested, config>>

Next ==
    \/ ApplyConfig
    \/ TwinApplyConfig
    \/ Drive
    \/ ShutdownTriggered
    \/ NeedsUpdateEachSecond
    \/ GenerateReport
    \/ StatusChange

Spec == Init /\ [][Next]_vars

\* The controller under the scheduler contract and with a modem that obeys:
\* drive_state_transitions is called after a configuration change and on
\* every tick while a transition is in progress, the status line moves only
\* to the level the pulse asked for, and does so eventually.
LiveNext ==
    \/ ApplyConfig
    \/ Drive
    \/ NeedsUpdateEachSecond
    \/ ModemSettle

LiveSpec ==
    Init /\ [][LiveNext]_vars /\ WF_vars(Drive) /\ WF_vars(ModemSettle)

(***************************************************************************)
(* Reading the record of the last call                                     *)
(***************************************************************************)

PinNames == {"pin_pwrkey", "pin_reset", "pin_enable"}

\* the levels the status reads of a call returned, in order
StatusReads(tr) == SelectSeq(tr, LAMBDA e : e[1] = "status")

\* the positions at which a call raised the power key
PulseStarts(tr) ==
    {i \in 1..Len(tr) : tr[i][1] = "pin_pwrkey" /\ tr[i][2] = 1}

NoPinWrite(tr) == \A i \in 1..Len(tr) : tr[i][1] \notin PinNames

NoDelay(tr) == \A i \in 1..Len(tr) : tr[i][1] # "msleep"

\* index of the first entry of the kind with the value, 0 when there is none
FirstIndex(tr, kind, value) ==
    LET hits == {i \in 1..Len(tr) : tr[i][1] = kind /\ tr[i][2] = value}
    IN  IF hits = {} THEN 0 ELSE CHOOSE i \in hits : \A j \in hits : i <= j

(***************************************************************************)
(* C1                                                                      *)
(***************************************************************************)

\* C1: after every apply_config the Desired Intent is a function of that
\* call's config alone: two controllers with different earlier intents that
\* are given the same config hold the same Desired Intent afterwards.
C1_IntentDependsOnConfigAlone ==
    call.op = "apply_config" => requested = twin_requested

(***************************************************************************)
(* C2                                                                      *)
(***************************************************************************)

PowerAbsentNoAt == [power |-> "absent", at_protocol |-> "false"]

PowerFalseNoAt == [power |-> "false", at_protocol |-> "false"]

\* the power-down sequence of one call: reset and enable asserted, then
\* exactly one power key pulse
PowerDownIssued(tr) ==
    /\ Cardinality(PulseStarts(tr)) = 1
    /\ FirstIndex(tr, "pin_reset", 1) > 0
    /\ FirstIndex(tr, "pin_enable", 1) > 0

\* C2 as stated: a config without 'power' and with at_protocol=false sets
\* Desired Intent to Off, and the drive call that follows it in Hardware
\* State On issues the power-down pulse and ends in Shutting-down.
C2_AbsentPowerNoAtIsOff ==
    /\ (call.op = "apply_config" /\ config = PowerAbsentNoAt)
           => requested = "OFF"
    /\ (call.op = "drive" /\ config = PowerAbsentNoAt /\ call.pre_state = "ON")
           => (PowerDownIssued(call.trace) /\ state = "SHUTTING_DOWN")

\* C2 amended: a config with power=false and at_protocol=false sets Desired
\* Intent to Off, while one without 'power' sets it to Don't-care; the drive
\* call that follows the former in Hardware State On issues the power-down
\* pulse and ends in Shutting-down when the status line still reads on (false)
\* after the pulse, in Off when it already reads off (true).
C2_FalsePowerNoAtIsOff ==
    /\ (call.op = "apply_config" /\ config = PowerFalseNoAt)
           => requested = "OFF"
    /\ (call.op = "apply_config" /\ config = PowerAbsentNoAt)
           => requested = "DONT_CARE"
    /\ (call.op = "drive" /\ config = PowerFalseNoAt /\ call.pre_state = "ON")
           => /\ PowerDownIssued(call.trace)
              /\ StatusReads(call.trace) \in {<<<<"status", 0>>>>, <<<<"status", 1>>>>}
              /\ state = IF StatusReads(call.trace)[1][2] = 0
                         THEN "SHUTTING_DOWN" ELSE "OFF"

C2_Witness ==
    /\ call.op = "drive"
    /\ config = PowerFalseNoAt
    /\ call.pre_state = "ON"
    /\ state = "SHUTTING_DOWN"
    /\ PowerDownIssued(call.trace)

(***************************************************************************)
(* C3                                                                      *)
(***************************************************************************)

PowerFalseWithAt(cfg) ==
    cfg.power = "false" /\ cfg.at_protocol \in {"true", "absent"}

\* C3: after apply_config with power=false and at_protocol true or absent
\* the Desired Intent is Don't-care whatever it was before, and the drive
\* call that follows writes no pin, issues no delay and leaves Hardware State
\* as it was.
C3_FalsePowerWithAtIsDontCare ==
    /\ (call.op = "apply_config" /\ PowerFalseWithAt(config))
           => requested = "DONT_CARE"
    /\ (call.op = "drive" /\ PowerFalseWithAt(config))
           => /\ NoPinWrite(call.trace)
              /\ NoDelay(call.trace)
              /\ state = call.pre_state

(***************************************************************************)
(* C4                                                                      *)
(***************************************************************************)

AllReadsAre(tr, level) ==
    \A i \in 1..Len(StatusReads(tr)) : StatusReads(tr)[i][2] = level

\* every msleep of the call lasts at least the pulse length
DelaysAtLeast(tr, ms) ==
    \A i \in 1..Len(tr) : tr[i][1] = "msleep" => tr[i][2] >= ms

\* C4 as stated: a drive call from Hardware State Off with Desired Intent On
\* and the status line reading off (true) ends in Starting-up after exactly
\* one power key pulse of at least 1000 ms, with both counters equal to 0.
C4_PowerUpLeavesBothCountersZero ==
    (/\ call.op = "drive"
     /\ call.pre_state = "OFF"
     /\ call.pre_requested = "ON"
     /\ AllReadsAre(call.trace, 1))
        => /\ state = "STARTING_UP"
           /\ Cardinality(PulseStarts(call.trace)) = 1
           /\ DelaysAtLeast(call.trace, 1000)
           /\ startup_seconds = 0
           /\ shutdown_seconds = 0

\* C4 amended: such a call ends in Starting-up after exactly one power key
\* pulse of at least 1000 ms, with startup_seconds equal to 1 (set to 0 with
\* the pulse and incremented by the Starting-up step the same call runs) and
\* shutdown_seconds as it was before the call.
C4_PowerUpFromOff ==
    [][(/\ call'.op = "drive"
        /\ state = "OFF"
        /\ requested = "ON"
        /\ AllReadsAre(call'.trace, 1))
           => /\ state' = "STARTING_UP"
              /\ Cardinality(PulseStarts(call'.trace)) = 1
              /\ ~NoDelay(call'.trace)
              /\ DelaysAtLeast(call'.trace, 1000)
              /\ startup_seconds' = 1
              /\ shutdown_seconds' = shutdown_seconds]_vars

C4_Witness ==
    /\ call.op = "drive"
    /\ call.pre_state = "OFF"
    /\ call.pre_requested = "ON"
    /\ AllReadsAre(call.trace, 1)
    /\ state = "STARTING_UP"
    /\ startup_seconds = 1
    /\ shutdown_seconds = 2

(***************************************************************************)
(* C5                                                                      *)
(***************************************************************************)

\* C5: a drive call from Starting-up with Desired Intent On reads the status
\* line once; reading false (modem on) it ends in On, reading true it ends in
\* Starting-up with startup_seconds incremented by exactly 1 (in the counter's
\* width), whatever the counter's value: no count forces a transition.
C5_StartingUpStep ==
    [][(/\ call'.op = "drive"
        /\ state = "STARTING_UP"
        /\ requested = "ON")
           => /\ Len(StatusReads(call'.trace)) = 1
              /\ StatusReads(call'.trace)[1][2] = 0 => state' = "ON"
              /\ StatusReads(call'.trace)[1][2] = 1 =>
                    /\ state' = "STARTING_UP"
                    /\ startup_seconds' = (startup_seconds + 1) % CounterMod]_vars

\* Starting-up persists through a third consecutive poll that reads 'off'
C5_Witness ==
    /\ call.op = "drive"
    /\ call.after_drive
    /\ call.pre_state = "STARTING_UP"
    /\ call.pre_requested = "ON"
    /\ StatusReads(call.trace) = <<<<"status", 1>>>>
    /\ state = "STARTING_UP"
    /\ startup_seconds = 3

(***************************************************************************)
(* C6                                                                      *)
(***************************************************************************)

\* C6: a drive call that directly follows a drive call, with the Desired
\* Intent and the level of the status line as the first call left them,
\* writes no pin, issues no delay and leaves Hardware State unchanged.
C6_DriveIdempotent ==
    [][(/\ call.op = "drive"
        /\ call'.op = "drive"
        /\ requested' = requested
        /\ pin_status' = pin_status
        /\ AllReadsAre(call'.trace, B2N(pin_status)))
           => /\ NoPinWrite(call'.trace)
              /\ NoDelay(call'.trace)
              /\ state' = state]_vars

\* a second poll of a start-up that the status line has not confirmed
C6_Witness ==
    /\ call.op = "drive"
    /\ call.after_drive
    /\ call.pre_requested = "ON"
    /\ call.pre_state = "STARTING_UP"
    /\ state = "STARTING_UP"
    /\ NoPinWrite(call.trace)

(***************************************************************************)
(* C7                                                                      *)
(***************************************************************************)

\* C7: under the scheduler contract and with a modem whose status line
\* eventually reports what the last pulse asked for, a Desired Intent of On
\* (of Off) that stays leads from every reachable state to Hardware State On
\* (Off).
C7_Convergence ==
    /\ (requested = "ON")  ~> (state = "ON"  \/ requested # "ON")
    /\ (requested = "OFF") ~> (state = "OFF" \/ requested # "OFF")

\* the half of C7 that the code meets: a lasting intent of Off leads to Off
C7_ConvergenceOff ==
    (requested = "OFF") ~> (state = "OFF" \/ requested # "OFF")

(***************************************************************************)
(* C8                                                                      *)
(***************************************************************************)

\* the entries i, i+1, i+2 of the log are one pulse
PulseAt(tr, i) ==
    /\ i + 2 <= Len(tr)
    /\ tr[i] = <<"pin_pwrkey", 1>>
    /\ tr[i + 1][1] = "msleep"
    /\ tr[i + 1][2] >= 1000
    /\ tr[i + 2] = <<"pin_pwrkey", 0>>

\* C8: in every call, each raise of the power key is directly followed by a
\* delay of at least 1000 ms and that by the release of the power key, with
\* no other pin write, status read or state assignment in between; the power
\* key is written and delays are issued nowhere else; and the power key is
\* low when a drive call that wrote it returns.
C8_PulseUninterrupted ==
    LET tr == call.trace
    IN  /\ \A i \in 1..Len(tr) :
              /\ tr[i] = <<"pin_pwrkey", 1>> => PulseAt(tr, i)
              /\ tr[i] = <<"pin_pwrkey", 0>> => (i > 2 /\ PulseAt(tr, i - 2))
              /\ tr[i][1] = "msleep" => (i > 1 /\ PulseAt(tr, i - 1))
        /\ (call.op = "drive" /\ \E i \in 1..Len(tr) : tr[i][1] = "pin_pwrkey")
               => pin_pwrkey = FALSE

\* a drive call has issued the power-down pulse and returned
C8_Witness ==
    /\ call.op = "drive"
    /\ call.pre_requested = "OFF"
    /\ \E i \in 1..Len(call.trace) : PulseAt(call.trace, i)
    /\ pin_pwrkey = FALSE

(***************************************************************************)
(* C9                                                                      *)
(***************************************************************************)

\* C9: with Desired Intent Don't-care a drive call writes no pin, issues no
\* delay, reads no status and assigns no state, and leaves Hardware State,
\* both counters and every line as they were, in every Hardware State.
C9_DontCareIsNoOp ==
    [][(call'.op = "drive" /\ requested = "DONT_CARE")
           => /\ call'.trace = <<>>
              /\ UNCHANGED <<state, startup_seconds, shutdown_seconds,
                             requested, pin_status, pin_battery, pin_dtr,
                             pin_enable, pin_host_ready, pin_pwrkey,
                             pin_reset>>]_vars

C9_Witness ==
    /\ call.op = "drive"
    /\ call.pre_requested = "DONT_CARE"
    /\ call.pre_state = "UNKNOWN"
    /\ state = "UNKNOWN"

(***************************************************************************)
(* C10                                                                     *)
(***************************************************************************)

\* C10: needs_update_each_second() returns true in Starting-up and in
\* Shutting-down, false in Unknown, Off and On, and changes nothing.
C10_NeedsUpdate ==
    [][call'.op = "needs_update_each_second"
           => /\ state \in {"STARTING_UP", "SHUTTING_DOWN"} => call'.ret = TRUE
              /\ state \in {"UNKNOWN", "OFF", "ON"} => call'.ret = FALSE
              /\ UNCHANGED <<state, startup_seconds, shutdown_seconds,
                             requested, pin_status, pin_battery, pin_dtr,
                             pin_enable, pin_host_ready, pin_pwrkey,
                             pin_reset>>]_vars

C10_Witness ==
    /\ call.op = "needs_update_each_second"
    /\ call.ret = TRUE
    /\ state = "SHUTTING_DOWN"

(***************************************************************************)
(* C11                                                                     *)
(***************************************************************************)

\* C11: every report carries 'startup_seconds' exactly when Hardware State
\* is Starting-up and 'shutdown_seconds' exactly when it is Shutting-down,
\* never both, each with its counter's value, next to one 'power' attribute
\* that holds the literal string of the current Hardware State.
C11_ReportFields ==
    call.op = "generate_report" =>
        LET r == call.report
        IN  /\ (r.startup_seconds # <<>>) <=> (state = "STARTING_UP")
            /\ (r.shutdown_seconds # <<>>) <=> (state = "SHUTTING_DOWN")
            /\ ~(r.startup_seconds # <<>> /\ r.shutdown_seconds # <<>>)
            /\ r.startup_seconds \in {<<>>, <<startup_seconds>>}
            /\ r.shutdown_seconds \in {<<>>, <<shutdown_seconds>>}
            /\ state = "UNKNOWN"       => r.power = <<"unknown">>
            /\ state = "OFF"           => r.power = <<"off">>
            /\ state = "STARTING_UP"   => r.power = <<"starting up">>
            /\ state = "ON"            => r.power = <<"on">>
            /\ state = "SHUTTING_DOWN" => r.power = <<"shutting down">>

\* a report written during a shutdown whose startup counter is stale
C11_Witness ==
    /\ call.op = "generate_report"
    /\ state = "SHUTTING_DOWN"
    /\ startup_seconds > 0
    /\ call.report.shutdown_seconds = <<shutdown_seconds>>
    /\ call.report.startup_seconds = <<>>

(***************************************************************************)
(* C12                                                                     *)
(***************************************************************************)

\* the State whose enumerator value is n
StateOf(n) == CHOOSE s \in State : StateNum(s) = n

\* the values _state held during a call: the one before it, then every one
\* assigned, in order
StatePath(c) ==
    LET assigned == SelectSeq(c.trace, LAMBDA e : e[1] = "state")
    IN  <<c.pre_state>> \o [i \in 1..Len(assigned) |-> StateOf(assigned[i][2])]

\* every change of _state along the path is one of the edges
PathWithin(path, edges) ==
    \A i \in 1..(Len(path) - 1) :
        path[i] # path[i + 1] => <<path[i], path[i + 1]>> \in edges

ClaimedEdges ==
    {<<"UNKNOWN", "OFF">>, <<"UNKNOWN", "ON">>, <<"OFF", "STARTING_UP">>,
     <<"STARTING_UP", "ON">>, <<"ON", "SHUTTING_DOWN">>,
     <<"SHUTTING_DOWN", "OFF">>}

\* C12 as stated: apply_config and drive_state_transitions change Hardware
\* State only along Unknown->Off, Unknown->On, Off->Starting-up,
\* Starting-up->On, On->Shutting-down and Shutting-down->Off.
C12_OnlyClaimedEdges ==
    call.op \in {"apply_config", "drive"} =>
        /\ PathWithin(StatePath(call), ClaimedEdges)
        /\ StatePath(call)[Len(StatePath(call))] = state

\* C12 amended: they change it only along those six edges and
\* Starting-up->Shutting-down, the edge the power-down step takes when Desired
\* Intent turns Off during a start-up.
C12_OnlyCodeEdges ==
    call.op \in {"apply_config", "drive"} =>
        /\ PathWithin(StatePath(call),
                      ClaimedEdges \cup {<<"STARTING_UP", "SHUTTING_DOWN">>})
        /\ StatePath(call)[Len(StatePath(call))] = state

\* a drive call that turned a start-up into a shutdown and saw it confirmed
C12_Witness ==
    /\ call.op = "drive"
    /\ StatePath(call) = <<"STARTING_UP", "SHUTTING_DOWN", "OFF">>
    /\ state = "OFF"

(***************************************************************************)
(* C13                                                                     *)
(***************************************************************************)

\* Off and On are never adjacent on the path: On is entered from Unknown or
\* Starting-up only, Off from Unknown or Shutting-down only
NoDirectOffOn(path) ==
    \A i \in 1..(Len(path) - 1) :
        /\ (path[i + 1] = "ON" /\ path[i] # "ON")
               => path[i] \in {"UNKNOWN", "STARTING_UP"}
        /\ (path[i + 1] = "OFF" /\ path[i] # "OFF")
               => path[i] \in {"UNKNOWN", "SHUTTING_DOWN"}

\* the positions of the log at which _state goes from one state to another
Entries(c, from, to) ==
    {i \in 1..Len(c.trace) :
        /\ c.trace[i] = <<"state", StateNum(to)>>
        /\ LET earlier == SelectSeq(SubSeq(c.trace, 1, i - 1),
                                    LAMBDA e : e[1] = "state")
           IN  from = IF earlier = <<>> THEN c.pre_state
                      ELSE StateOf(earlier[Len(earlier)][2])}

\* the log entry at i directly follows a complete power key pulse
AfterPulse(tr, i) == i > 3 /\ PulseAt(tr, i - 3)

\* C13 as stated: no operation takes Hardware State from Off to On or from
\* On to Off directly, and every step from Off into Starting-up and from On
\* into Shutting-down directly follows a power-key pulse of this controller.
C13_TransientsEnteredByPulse ==
    /\ NoDirectOffOn(StatePath(call))
    /\ \A i \in Entries(call, "OFF", "STARTING_UP") : AfterPulse(call.trace, i)
    /\ \A i \in Entries(call, "ON", "SHUTTING_DOWN") : AfterPulse(call.trace, i)

\* C13 amended: no operation takes Hardware State from Off to On or from On
\* to Off directly; every step from Off into Starting-up, and every step from
\* On into Shutting-down that drive_state_transitions takes, directly follows
\* a power-key pulse of this controller, while shutdown_triggered() called
\* from outside enters Shutting-down without a pulse.
C13_TransientsEnteredByDrivePulse ==
    /\ NoDirectOffOn(StatePath(call))
    /\ \A i \in Entries(call, "OFF", "STARTING_UP") : AfterPulse(call.trace, i)
    /\ call.op = "drive" =>
           \A i \in Entries(call, "ON", "SHUTTING_DOWN") :
               AfterPulse(call.trace, i)
    /\ call.op = "shutdown_triggered" =>
           (call.trace = <<<<"state", 4>>>> /\ state = "SHUTTING_DOWN")

\* one drive call went from Off through Starting-up to On
C13_Witness ==
    /\ call.op = "drive"
    /\ StatePath(call) = <<"OFF", "STARTING_UP", "ON">>
    /\ Entries(call, "OFF", "STARTING_UP") # {}
    /\ state = "ON"

(***************************************************************************)
(* C14                                                                     *)
(***************************************************************************)

\* C14 as stated: when a drive call returns Hardware State is not Unknown,
\* and a Hardware State other than Unknown never becomes Unknown.
C14_UnknownUntilFirstDrive ==
    [][/\ call'.op = "drive" => state' # "UNKNOWN"
       /\ state # "UNKNOWN" => state' # "UNKNOWN"]_vars

\* C14 amended: when a drive call made with Desired Intent On or Off returns,
\* Hardware State is not Unknown; a drive call made with Desired Intent
\* Don't-care leaves Unknown as it is; and a Hardware State other than
\* Unknown never becomes Unknown.
C14_UnknownUntilFirstRequestedDrive ==
    [][/\ (call'.op = "drive" /\ requested \in {"ON", "OFF"})
              => state' # "UNKNOWN"
       /\ (call'.op = "drive" /\ requested = "DONT_CARE" /\ state = "UNKNOWN")
              => state' = "UNKNOWN"
       /\ state # "UNKNOWN" => state' # "UNKNOWN"]_vars

\* the first drive call with a request has resolved Unknown from the line
C14_Witness ==
    /\ call.op = "drive"
    /\ call.pre_state = "UNKNOWN"
    /\ call.pre_requested = "ON"
    /\ call.trace = <<<<"status", 0>>, <<"state", 3>>>>
    /\ state = "ON"

(***************************************************************************)
(* C15                                                                     *)
(***************************************************************************)

\* the call issued one power key pulse without touching reset and enable
PowerUpIssued(tr) ==
    /\ Cardinality(PulseStarts(tr)) = 1
    /\ FirstIndex(tr, "pin_reset", 1) = 0
    /\ FirstIndex(tr, "pin_enable", 1) = 0

\* C15: a drive call with a request in Unknown first reads the status line
\* and takes true for Off and false for On; with Desired Intent On it issues
\* the power-up pulse exactly when the line read true, with Desired Intent
\* Off the power-down pulse exactly when it read false; a call in Starting-up
\* with intent On ends in On exactly when its read returns false, a call in
\* Shutting-down with intent Off ends in Off exactly when its read returns
\* true.
C15_StatusPolarity ==
    LET tr == call.trace
        reads == StatusReads(tr)
    IN  /\ (/\ call.op = "drive"
            /\ call.pre_state = "UNKNOWN"
            /\ call.pre_requested \in {"ON", "OFF"})
               => /\ Len(tr) >= 2
                  /\ tr[1][1] = "status"
                  /\ tr[1][2] = 1 => tr[2] = <<"state", StateNum("OFF")>>
                  /\ tr[1][2] = 0 => tr[2] = <<"state", StateNum("ON")>>
                  /\ call.pre_requested = "ON" =>
                        IF tr[1][2] = 1 THEN PowerUpIssued(tr)
                        ELSE NoPinWrite(tr) /\ NoDelay(tr)
                  /\ call.pre_requested = "OFF" =>
                        IF tr[1][2] = 0 THEN PowerDownIssued(tr)
                        ELSE NoPinWrite(tr) /\ NoDelay(tr)
        /\ (/\ call.op = "drive"
            /\ call.pre_state = "STARTING_UP"
            /\ call.pre_requested = "ON")
               => /\ Len(reads) = 1
                  /\ (state = "ON") <=> (reads[1][2] = 0)
                  /\ (state = "STARTING_UP") <=> (reads[1][2] = 1)
        /\ (/\ call.op = "drive"
            /\ call.pre_state = "SHUTTING_DOWN"
            /\ call.pre_requested = "OFF")
               => /\ Len(reads) = 1
                  /\ (state = "OFF") <=> (reads[1][2] = 1)
                  /\ (state = "SHUTTING_DOWN") <=> (reads[1][2] = 0)

\* from Unknown with intent Off the line read 'on' and the modem was pulsed
C15_Witness ==
    /\ call.op = "drive"
    /\ call.pre_state = "UNKNOWN"
    /\ call.pre_requested = "OFF"
    /\ call.trace[1] = <<"status", 0>>
    /\ PowerDownIssued(call.trace)

(***************************************************************************)
(* C16                                                                     *)
(***************************************************************************)

\* the log starts with the power-down step: reset, then enable asserted,
\* then the pulse, then the assignment of SHUTTING_DOWN
PowerDownStepLog(tr) ==
    /\ Len(tr) >= 6
    /\ tr[1] = <<"pin_reset", 1>>
    /\ tr[2] = <<"pin_enable", 1>>
    /\ PulseAt(tr, 3)
    /\ tr[6] = <<"state", StateNum("SHUTTING_DOWN")>>

\* C16: with Desired Intent Off and Hardware State Starting-up or On, the
\* power-down step asserts reset, then RF-enable, then raises the power key,
\* waits at least 1000 ms and lowers it, and leaves shutdown_seconds at 0 and
\* Hardware State Shutting-down, with reset and RF-enable asserted; a drive
\* call made in such a state starts with exactly this step and returns with
\* both lines asserted.
C16_PowerDownStep ==
    /\ (requested = "OFF" /\ state \in {"STARTING_UP", "ON"}) =>
           \A after \in BOOLEAN :
               LET n == drive_power_down(Machine, after)
               IN  /\ PowerDownStepLog(n.trace)
                   /\ Len(n.trace) = 6
                   /\ n.shutdown_seconds = 0
                   /\ n.state = "SHUTTING_DOWN"
                   /\ n.pin_reset /\ n.pin_enable /\ ~n.pin_pwrkey
    /\ (/\ call.op = "drive"
        /\ call.pre_requested = "OFF"
        /\ call.pre_state \in {"STARTING_UP", "ON"})
           => /\ PowerDownStepLog(call.trace)
              /\ Cardinality(PulseStarts(call.trace)) = 1
              /\ \A i \in 1..Len(call.trace) :
                     call.trace[i][1] \in {"pin_reset", "pin_enable"} => i <= 2
              /\ pin_reset /\ pin_enable

\* a start-up with a stale shutdown counter was turned into a shutdown
C16_Witness ==
    /\ call.op = "drive"
    /\ call.pre_requested = "OFF"
    /\ call.pre_state = "STARTING_UP"
    /\ PowerDownStepLog(call.trace)
    /\ state = "SHUTTING_DOWN"
    /\ pin_reset /\ pin_enable

(***************************************************************************)
(* C17                                                                     *)
(***************************************************************************)

\* C17: the step that enters Starting-up (Shutting-down) leaves
\* startup_seconds (shutdown_seconds) at 0, and every drive call received in
\* Starting-up (Shutting-down) increments startup_seconds (shutdown_seconds)
\* by exactly one, whatever the Desired Intent of that call.
C17_CountersAdvanceOnEveryPoll ==
    [][/\ (requested = "ON" /\ state = "OFF") =>
              \A after \in BOOLEAN :
                  drive_power_up(Machine, after).startup_seconds = 0
       /\ (requested = "OFF" /\ state \in {"STARTING_UP", "ON"}) =>
              \A after \in BOOLEAN :
                  drive_power_down(Machine, after).shutdown_seconds = 0
       /\ call'.op = "shutdown_triggered" => shutdown_seconds' = 0
       /\ (call'.op = "drive" /\ state = "STARTING_UP")
              => startup_seconds' = (startup_seconds + 1) % CounterMod
       /\ (call'.op = "drive" /\ state = "SHUTTING_DOWN")
              => shutdown_seconds' = (shutdown_seconds + 1) % CounterMod]_vars

\* what the code does: the counter of a transient state advances only in
\* drive calls whose Desired Intent is the one that entered the state
C17_CountersAdvanceOnMatchingPoll ==
    [][/\ (call'.op = "drive" /\ state = "STARTING_UP")
              => startup_seconds' =
                     IF requested = "ON"
                     THEN (startup_seconds + 1) % CounterMod
                     ELSE startup_seconds
       /\ (call'.op = "drive" /\ state = "SHUTTING_DOWN")
              => shutdown_seconds' =
                     IF requested = "OFF"
                     THEN (shutdown_seconds + 1) % CounterMod
                     ELSE shutdown_seconds]_vars

(***************************************************************************)
(* C18                                                                     *)
(***************************************************************************)

\* C18: apply_config writes no pin, issues no delay, reads no status and
\* leaves Hardware State, both counters and every line as they were; a drive
\* call leaves Desired Intent as it was.
C18_IntentAndStateSeparate ==
    [][/\ call'.op = "apply_config" =>
              /\ call'.trace = <<>>
              /\ UNCHANGED <<state, startup_seconds, shutdown_seconds,
                             pin_status, pin_battery, pin_dtr, pin_enable,
                             pin_host_ready, pin_pwrkey, pin_reset>>
       /\ call'.op = "drive" => requested' = requested]_vars

\* a config turned the intent to Off during a start-up and nothing else moved
C18_Witness ==
    /\ call.op = "apply_config"
    /\ call.pre_requested = "ON"
    /\ requested = "OFF"
    /\ call.pre_state = "STARTING_UP"
    /\ state = "STARTING_UP"
    /\ ~pin_reset

(***************************************************************************)
(* C19                                                                     *)
(***************************************************************************)

\* C19: every drive_state_transitions call returns after at most three
\* state-machine steps and at most one power-key pulse, for every Desired
\* Intent, starting Hardware State and status-line behaviour.
C19_DriveTerminates ==
    call.op = "drive" =>
        /\ call.steps \in 1..3
        /\ Cardinality(PulseStarts(call.trace)) <= 1

\* a call that needed all three steps and pulsed the power key: from Unknown
\* to a transient state, on to the settled state, and one step that changes
\* nothing
C19_Witness ==
    /\ call.op = "drive"
    /\ call.pre_state = "UNKNOWN"
    /\ call.steps = 3
    /\ Cardinality(PulseStarts(call.trace)) = 1

(***************************************************************************)
(* C20                                                                     *)
(***************************************************************************)

\* the lines a power-up step may not touch, and what every operation keeps:
\* battery, DTR and host-ready never change, reset and RF-enable change only
\* in a drive call with Desired Intent Off and only to high, and a drive call
\* with Desired Intent On writes no line but the power key
OnlyPwrkeyWritten(tr) ==
    \A i \in 1..Len(tr) : tr[i][1] \in PinNames => tr[i][1] = "pin_pwrkey"

LinesFrame ==
    /\ UNCHANGED <<pin_battery, pin_dtr, pin_host_ready>>
    /\ (pin_reset' # pin_reset \/ pin_enable' # pin_enable) =>
           /\ call'.op = "drive"
           /\ requested = "OFF"
           /\ pin_reset' /\ pin_enable'
    /\ (call'.op = "drive" /\ requested = "ON") =>
           OnlyPwrkeyWritten(call'.trace)
    /\ pin_reset => pin_reset'
    /\ pin_enable => pin_enable'

\* C20: the power-up step writes only the power-key line; battery, DTR,
\* host-ready, reset and RF-enable are changed by no operation except the
\* power-down step, which sets reset and RF-enable high, so that once a
\* power-down step has run reset and RF-enable are asserted and stay so.
C20_AnyPowerDownStepAsserts ==
    [][/\ LinesFrame
       /\ (call'.op = "drive" /\ requested = "OFF") =>
              pin_reset' /\ pin_enable']_vars

\* C20 for the power-down step that issues the pulse (run in Starting-up or
\* On): the frame above holds, and once that step has run reset and RF-enable
\* are asserted and stay asserted through every later operation.
C20_PulsingPowerDownStepAsserts ==
    [][/\ LinesFrame
       /\ (call'.op = "drive" /\ requested = "OFF"
           /\ PulseStarts(call'.trace) # {}) =>
              pin_reset' /\ pin_enable']_vars

\* a power-up that reached On after an earlier power-down pulse, reset and
\* RF-enable still asserted
C20_Witness ==
    /\ call.op = "drive"
    /\ call.pre_requested = "ON"
    /\ PulseStarts(call.trace) # {}
    /\ state = "ON"
    /\ pin_reset
    /\ pin_enable

====
